---- MODULE Spec2Model ----
(***************************************************************************)
(* Model of src/notional/free-collateral.js: the FreeCollateral plugin.    *)
(*                                                                         *)
(* The host calls the four hooks (onInit, onSubscribeForm, onBlocks,       *)
(* buildNotification) in any order and any interleaving.  An async hook    *)
(* runs synchronously up to its first await; every await is a point where  *)
(* the environment (the Notional SDK) resolves or rejects later.           *)
(*                                                                         *)
(*   calls    the hook invocations made so far, in the order of the calls  *)
(*   fetches  the getFreeCollateral invocations made so far (each one is   *)
(*            the promise its caller received)                             *)
(***************************************************************************)
EXTENDS Integers, Sequences, FiniteSets

VARIABLES calls, fetches

vars == <<calls, fetches>>

----------------------------------------------------------------------------
(* Bounds of the model *)

\* hook invocations in one behaviour
MaxCalls == 3
\* getFreeCollateral invocations in one behaviour
MaxFetches == 2

\* account addresses the host passes
Addresses == {"0xA", "0xB"}
\* the accounts the SDK reports: haircut collateral and buffered debt in ETH
\* fixed-point units, both non-negative
SdkAccounts ==
    {[collateralETH |-> 2, debtETH |-> 0], [collateralETH |-> 2, debtETH |-> 1],
     [collateralETH |-> 1, debtETH |-> 2]}
\* ETH -> USD rates the loaded SDK applies, as fixed-point fractions
Rates == {[num |-> 601, den |-> 2]}
\* thresholds a stored subscription carries
Thresholds == {500}
\* snapshots the host passes to buildNotification directly
NotificationInputs ==
    {[debt |-> 2000, collateral |-> 1500, freeCollateral |-> -500],
     [debt |-> 300, collateral |-> 700, freeCollateral |-> 400]}

----------------------------------------------------------------------------
(* Program constants *)

\* Notional.load(1, null): the network the SDK is loaded for
MainnetNetworkId == 1
\* default: 1000 of the field descriptor
DefaultThreshold == 1000

----------------------------------------------------------------------------
(* JavaScript values the hooks handle *)

Undefined == [t |-> "undefined", n |-> 0]
Num(n) == [t |-> "number", n |-> n]

NoSnapshot == [debt |-> 0, collateral |-> 0, freeCollateral |-> 0]
NoSdk == [rateNum |-> 0, rateDen |-> 1, collateralETH |-> 0, debtETH |-> 0]

\* what a variable of a hook holds: a resolved snapshot object, or the promise
\* of a getFreeCollateral invocation
SnapshotObject(s) == [t |-> "snapshot", snapshot |-> s, fetch |-> 0]
PromiseObject(f) == [t |-> "promise", snapshot |-> NoSnapshot, fetch |-> f]

\* obj.debt, obj.collateral, obj.freeCollateral: a promise has none of them
GetDebt(obj) ==
    IF obj.t = "snapshot" THEN Num(obj.snapshot.debt) ELSE Undefined
GetCollateral(obj) ==
    IF obj.t = "snapshot" THEN Num(obj.snapshot.collateral) ELSE Undefined
GetFreeCollateralField(obj) ==
    IF obj.t = "snapshot" THEN Num(obj.snapshot.freeCollateral) ELSE Undefined

\* a < b of JavaScript: undefined converts to NaN, and NaN compares false
LessThan(a, b) ==
    IF a.t = "number" /\ b.t = "number" THEN a.n < b.n ELSE FALSE

----------------------------------------------------------------------------
(* Results of a hook invocation *)

NoText == <<>>

VoidResult ==
    [kind |-> "void", id |-> "", default |-> 0, text |-> NoText, err |-> ""]
EmptyResult ==
    [kind |-> "empty", id |-> "", default |-> 0, text |-> NoText, err |-> ""]
Thrown(e) ==
    [kind |-> "throw", id |-> "", default |-> 0, text |-> NoText, err |-> e]
PendingResult ==
    [kind |-> "pending", id |-> "", default |-> 0, text |-> NoText, err |-> ""]

----------------------------------------------------------------------------
(* amountFormatter = Intl.NumberFormat('en', { notation: 'compact' }) *)

Abs(x) == IF x < 0 THEN -x ELSE x

\* amountFormatter.format(v): compact notation.  Below 1000 the integer itself;
\* from 1000 on, thousands with one rounded decimal while the integer part has
\* one digit, whole thousands after that.  <<sign, integer, decimal, suffix>>.
Format(v) ==
    IF v.t # "number" THEN <<"", 0, 0, "NaN">>
    ELSE LET a == Abs(v.n)
             sign == IF v.n < 0 THEN "-" ELSE ""
             tenths == (a + 50) \div 100
         IN  IF a < 1000 THEN <<sign, a, 0, "">>
             ELSE IF tenths < 100 THEN <<sign, tenths \div 10, tenths % 10, "K">>
             ELSE <<sign, (a + 500) \div 1000, 0, "K">>

\* amountFormatter(v): the formatter is an Intl.NumberFormat object, called as
\* a function.  The object is not callable, so the call throws a TypeError.
AmountFormatterIsCallable == FALSE

----------------------------------------------------------------------------
(* getFreeCollateral(accountId) *)

\* BigNumber division: the quotient is truncated toward zero
TruncDiv(a, b) == IF a >= 0 THEN a \div b ELSE -((-a) \div b)

\* Number(x.toUSD().toExactString()): the ETH amount times the loaded rate, in
\* fixed-point arithmetic
ToUSD(eth, sdk) == TruncDiv(eth * sdk.rateNum, sdk.rateDen)

\* a plausible slip: the operands of sub() exchanged
GetFreeCollateralResultSwapped(sdk) ==
    [debt |-> ToUSD(sdk.debtETH, sdk),
     collateral |-> ToUSD(sdk.collateralETH, sdk),
     freeCollateral |-> ToUSD(sdk.debtETH - sdk.collateralETH, sdk)]

\* the object getFreeCollateral returns: the difference is taken in ETH, and
\* each of the three ETH amounts is converted on its own
GetFreeCollateralResult(sdk) ==
    [debt |-> ToUSD(sdk.debtETH, sdk),
     collateral |-> ToUSD(sdk.collateralETH, sdk),
     freeCollateral |-> ToUSD(sdk.collateralETH - sdk.debtETH, sdk)]

\* the invocation as it stands at its first await: Notional.load(1, null) is
\* issued and pending
GetFreeCollateralStart(owner, accountId) ==
    [owner |-> owner, accountId |-> accountId, network |-> MainnetNetworkId,
     queried |-> "", status |-> "load", log |-> <<"load">>,
     sdk |-> NoSdk, snapshot |-> NoSnapshot, err |-> ""]

\* a plausible slip: a failed load is issued again
FetchAfterLoadFailureRetry(f) ==
    [f EXCEPT !.log = Append(@, "load")]

\* await Notional.load rejects: the invocation rejects with that error
FetchAfterLoadFailure(f) ==
    [f EXCEPT !.status = "rejected", !.err = "LoadError"]

\* await Notional.load resolves: getAccountFromGraph(accountId) is issued
FetchAfterLoad(f, rate) ==
    [f EXCEPT !.status = "account", !.queried = f.accountId,
              !.log = Append(@, "account"),
              !.sdk = [@ EXCEPT !.rateNum = rate.num, !.rateDen = rate.den]]

\* await getAccountFromGraph rejects
FetchAfterAccountFailure(f) ==
    [f EXCEPT !.status = "rejected", !.err = "AccountError"]

\* await getAccountFromGraph resolves: the rest of the body runs to its return,
\* or to the throw of one of the SDK's conversion calls
FetchAfterAccount(f, account, converts) ==
    LET sdk == [f.sdk EXCEPT !.collateralETH = account.collateralETH,
                             !.debtETH = account.debtETH]
    IN  IF converts
        THEN [f EXCEPT !.status = "resolved", !.log = Append(@, "convert"),
                       !.sdk = sdk, !.snapshot = GetFreeCollateralResult(sdk)]
        ELSE [f EXCEPT !.status = "rejected", !.log = Append(@, "convert"),
                       !.err = "ConversionError"]

Settled(f) == f.status \in {"resolved", "rejected"}

LoadResolves(i) ==
    /\ i \in 1 .. Len(fetches)
    /\ fetches[i].status = "load"
    /\ \E rate \in Rates :
          fetches' = [fetches EXCEPT ![i] = FetchAfterLoad(@, rate)]
    /\ UNCHANGED calls

LoadRejects(i) ==
    /\ i \in 1 .. Len(fetches)
    /\ fetches[i].status = "load"
    /\ fetches' = [fetches EXCEPT ![i] = FetchAfterLoadFailure(@)]
    /\ UNCHANGED calls

AccountResolves(i) ==
    /\ i \in 1 .. Len(fetches)
    /\ fetches[i].status = "account"
    /\ \E account \in SdkAccounts, converts \in BOOLEAN :
          fetches' = [fetches EXCEPT ![i] = FetchAfterAccount(@, account, converts)]
    /\ UNCHANGED calls

AccountRejects(i) ==
    /\ i \in 1 .. Len(fetches)
    /\ fetches[i].status = "account"
    /\ fetches' = [fetches EXCEPT ![i] = FetchAfterAccountFailure(@)]
    /\ UNCHANGED calls

----------------------------------------------------------------------------
(* The hooks *)

NoSubscription == [present |-> FALSE, threshold |-> 0]
Subscription(t) == [present |-> TRUE, threshold |-> t]

Args(address, subscription, snapshot) ==
    [address |-> address, subscription |-> subscription, snapshot |-> snapshot]

Call(hook, args, pc, fetch, result) ==
    [hook |-> hook, args |-> args, pc |-> pc, fetch |-> fetch, result |-> result]

\* async onInit(args) {}: the arguments are not read
OnInit ==
    /\ Len(calls) < MaxCalls
    /\ calls' = Append(calls,
                  Call("onInit", Args("", NoSubscription, NoSnapshot),
                       "done", 0, VoidResult))
    /\ UNCHANGED fetches

\* a plausible slip: a rejected fetch is swallowed and a zero snapshot used
AwaitFetchSwallow(f) ==
    [ok |-> TRUE,
     value |-> IF f.status = "resolved" THEN f.snapshot ELSE NoSnapshot,
     err |-> ""]

\* await promise: the resolved value, or the rejection thrown at the await
AwaitFetch(f) ==
    IF f.status = "rejected"
    THEN [ok |-> FALSE, value |-> NoSnapshot, err |-> f.err]
    ELSE [ok |-> TRUE, value |-> f.snapshot, err |-> ""]

\* onSubscribeForm from its await on: the destructuring, then the array literal,
\* whose description calls amountFormatter(freeCollateral)
OnSubscribeFormReturn(f) ==
    LET got == AwaitFetch(f)
    IN  IF ~got.ok THEN Thrown(got.err)
        ELSE IF ~AmountFormatterIsCallable THEN Thrown("TypeError")
        ELSE [kind |-> "form", id |-> "free-collateral",
              default |-> DefaultThreshold,
              text |-> <<Format(Num(got.value.freeCollateral))>>, err |-> ""]

\* onSubscribeForm(args) up to its await: getFreeCollateral(args.address) is
\* started and awaited
OnSubscribeForm ==
    /\ Len(calls) < MaxCalls
    /\ Len(fetches) < MaxFetches
    /\ \E a \in Addresses :
          /\ calls' = Append(calls,
                        Call("onSubscribeForm", Args(a, NoSubscription, NoSnapshot),
                             "awaiting", Len(fetches) + 1, PendingResult))
          /\ fetches' = Append(fetches, GetFreeCollateralStart(Len(calls) + 1, a))

\* the awaited fetch has settled: onSubscribeForm resumes and completes
OnSubscribeFormResume(c) ==
    /\ c \in 1 .. Len(calls)
    /\ calls[c].pc = "awaiting"
    /\ Settled(fetches[calls[c].fetch])
    /\ calls' = [calls EXCEPT
                   ![c].pc = "done",
                   ![c].result = OnSubscribeFormReturn(fetches[calls[c].fetch])]
    /\ UNCHANGED fetches

\* a plausible slip: a sequence number added to the notification
BuildNotificationNumbered(obj) ==
    [kind |-> "notification", id |-> "", default |-> 0,
     text |-> <<Format(GetFreeCollateralField(obj)), Format(GetCollateral(obj)),
                Format(GetDebt(obj)), <<"", Len(calls), 0, "#">> >>,
     err |-> ""]

\* buildNotification(freeCollateral): the three figures, each formatted
BuildNotification(obj) ==
    [kind |-> "notification", id |-> "", default |-> 0,
     text |-> <<Format(GetFreeCollateralField(obj)), Format(GetCollateral(obj)),
                Format(GetDebt(obj))>>,
     err |-> ""]

\* the host calls buildNotification itself
CallBuildNotification ==
    /\ Len(calls) < MaxCalls
    /\ \E s \in NotificationInputs :
          calls' = Append(calls,
                     Call("buildNotification",
                          Args("", NoSubscription, s), "done", 0,
                          BuildNotification(SnapshotObject(s))))
    /\ UNCHANGED fetches

\* a plausible slip: the guard dropped
SubscriptionAbsentNever(subscription) == FALSE

\* !args.subscription
SubscriptionAbsent(subscription) == ~subscription.present

\* a plausible slip: a snapshot kept from an earlier fetch is used when there
\* is one
FetchHandleCached(f) ==
    IF \E g \in 1 .. Len(fetches) : fetches[g].status = "resolved"
    THEN SnapshotObject(fetches[CHOOSE g \in 1 .. Len(fetches) :
                                    fetches[g].status = "resolved"].snapshot)
    ELSE PromiseObject(f)

\* const accountFreeCollateral = this.getFreeCollateral(args.address): without
\* an await the variable holds the promise
FetchHandle(f) == PromiseObject(f)

\* subscription['free-collateral']
ThresholdOf(subscription) ==
    IF subscription.present THEN Num(subscription.threshold) ELSE Undefined

\* the comparison and the two returns that follow it
OnBlocksReturn(subscription, obj) ==
    IF LessThan(GetFreeCollateralField(obj), ThresholdOf(subscription))
    THEN BuildNotification(obj)
    ELSE EmptyResult

\* onBlocks(args) without a subscription: return;
OnBlocksNoSubscription ==
    /\ Len(calls) < MaxCalls
    /\ \E a \in Addresses, sub \in {NoSubscription} \cup {Subscription(t) : t \in Thresholds} :
          /\ SubscriptionAbsent(sub)
          /\ calls' = Append(calls,
                        Call("onBlocks", Args(a, sub, NoSnapshot), "done", 0,
                             VoidResult))
    /\ UNCHANGED fetches

\* onBlocks(args) with a subscription: the fetch is started, and the hook goes
\* on to the comparison and returns in the same turn
OnBlocksEvaluate ==
    /\ Len(calls) < MaxCalls
    /\ Len(fetches) < MaxFetches
    /\ \E a \in Addresses, sub \in {NoSubscription} \cup {Subscription(t) : t \in Thresholds} :
          /\ ~SubscriptionAbsent(sub)
          /\ calls' = Append(calls,
                        Call("onBlocks", Args(a, sub, NoSnapshot), "done",
                             Len(fetches) + 1,
                             OnBlocksReturn(sub, FetchHandle(Len(fetches) + 1))))
          /\ fetches' = Append(fetches, GetFreeCollateralStart(Len(calls) + 1, a))

----------------------------------------------------------------------------
(* The specification *)

Init ==
    /\ calls = <<>>
    /\ fetches = <<>>

Next ==
    \/ OnInit
    \/ OnSubscribeForm
    \/ \E c \in 1 .. MaxCalls : OnSubscribeFormResume(c)
    \/ CallBuildNotification
    \/ OnBlocksNoSubscription
    \/ OnBlocksEvaluate
    \/ \E i \in 1 .. MaxFetches : LoadResolves(i)
    \/ \E i \in 1 .. MaxFetches : LoadRejects(i)
    \/ \E i \in 1 .. MaxFetches : AccountResolves(i)
    \/ \E i \in 1 .. MaxFetches : AccountRejects(i)

Spec == Init /\ [][Next]_vars

----------------------------------------------------------------------------
(* Properties *)

CallIds == 1 .. Len(calls)
FetchIds == 1 .. Len(fetches)

\* the getFreeCollateral invocation a call started
FetchOf(c) == fetches[calls[c].fetch]

StartedFetch(c) == calls[c].fetch # 0

OnBlocksWithSubscription(c) ==
    /\ calls[c].hook = "onBlocks"
    /\ calls[c].args.subscription.present

\* C1: an onBlocks call with threshold T whose fetch succeeds with snapshot S
\* returns the notification built from S when S.freeCollateral < T, and the
\* empty result when S.freeCollateral >= T.
C1_OnBlocksComparesSnapshot ==
    \A c \in CallIds :
        (/\ OnBlocksWithSubscription(c)
         /\ calls[c].pc = "done"
         /\ StartedFetch(c)
         /\ FetchOf(c).status = "resolved")
        => LET S == FetchOf(c).snapshot
               T == calls[c].args.subscription.threshold
           IN  /\ S.freeCollateral < T
                    => calls[c].result = BuildNotification(SnapshotObject(S))
               /\ S.freeCollateral >= T => calls[c].result = EmptyResult

\* C2: a hook that starts a snapshot fetch completes only after that fetch has
\* completed.
C2_HookCompletesAfterItsFetch ==
    \A c \in CallIds :
        (calls[c].pc = "done" /\ StartedFetch(c)) => Settled(FetchOf(c))

\* C3: whatever snapshot the fetch returns, onSubscribeForm completes with one
\* field descriptor whose id is 'free-collateral' and whose default is 1000.
C3_SubscribeFormReturnsDescriptor ==
    \A c \in CallIds :
        (/\ calls[c].hook = "onSubscribeForm"
         /\ calls[c].pc = "done"
         /\ FetchOf(c).status = "resolved")
        => /\ calls[c].result.kind = "form"
           /\ calls[c].result.id = "free-collateral"
           /\ calls[c].result.default = 1000

\* C4: when the fetch onBlocks started fails, the onBlocks call fails with that
\* error; it never completes with an empty result or a notification.
C4_OnBlocksFailsWithFetchError ==
    \A c \in CallIds :
        (/\ OnBlocksWithSubscription(c)
         /\ StartedFetch(c)
         /\ FetchOf(c).status = "rejected")
        => \/ calls[c].pc # "done"
           \/ calls[c].result = Thrown(FetchOf(c).err)

\* C5: without a subscription onBlocks returns no result and starts no fetch.
C5_NoSubscriptionNoFetch ==
    \A c \in CallIds :
        (calls[c].hook = "onBlocks" /\ ~calls[c].args.subscription.present)
        => /\ calls[c].pc = "done"
           /\ calls[c].result = VoidResult
           /\ ~StartedFetch(c)
           /\ \A f \in FetchIds : fetches[f].owner # c

\* an onBlocks call without a subscription has returned while another call's
\* fetch is under way
C5_Witness ==
    \E c \in CallIds :
        /\ calls[c].hook = "onBlocks"
        /\ ~calls[c].args.subscription.present
        /\ calls[c].pc = "done"
        /\ \E f \in FetchIds : ~Settled(fetches[f])

\* C6: when the fetch onSubscribeForm started fails, the call fails with that
\* error and returns no field descriptor.
C6_SubscribeFormFailsWithFetchError ==
    \A c \in CallIds :
        (calls[c].hook = "onSubscribeForm" /\ FetchOf(c).status = "rejected")
        => \/ calls[c].pc = "awaiting"
           \/ /\ calls[c].pc = "done"
              /\ calls[c].result = Thrown(FetchOf(c).err)

\* onSubscribeForm has completed after its fetch failed at the account query
C6_Witness ==
    \E c \in CallIds :
        /\ calls[c].hook = "onSubscribeForm"
        /\ calls[c].pc = "done"
        /\ FetchOf(c).status = "rejected"
        /\ FetchOf(c).err = "AccountError"

OwnResponses(c) ==
    IF StartedFetch(c)
    THEN [status |-> FetchOf(c).status, sdk |-> FetchOf(c).sdk,
          err |-> FetchOf(c).err]
    ELSE [status |-> "none", sdk |-> NoSdk, err |-> ""]

\* C8: the result of a hook invocation is determined by its own arguments and
\* by the SDK's answers to the fetch it started: two completed invocations of
\* the same hook with the same arguments and the same answers have the same
\* result, whatever other invocations ran before or between them.
C8_InvocationsAreIndependent ==
    \A i \in CallIds, j \in CallIds :
        (/\ calls[i].pc = "done" /\ calls[j].pc = "done"
         /\ calls[i].hook = calls[j].hook
         /\ calls[i].args = calls[j].args
         /\ OwnResponses(i) = OwnResponses(j))
        => calls[i].result = calls[j].result

\* two onBlocks calls with the same arguments, another call between them, and
\* both their fetches resolved with the same account
C8_Witness ==
    \E i \in CallIds, j \in CallIds :
        /\ i + 1 < j
        /\ OnBlocksWithSubscription(i) /\ OnBlocksWithSubscription(j)
        /\ calls[i].args = calls[j].args
        /\ FetchOf(i).status = "resolved"
        /\ OwnResponses(i) = OwnResponses(j)
        /\ FetchOf(i).snapshot.freeCollateral < calls[i].args.subscription.threshold

\* C9: buildNotification starts no fetch, and two calls with the same snapshot
\* return the same notification, whatever hooks were called in between.
C9_BuildNotificationIsPure ==
    \A i \in CallIds :
        calls[i].hook = "buildNotification"
        => /\ calls[i].pc = "done"
           /\ calls[i].result.kind = "notification"
           /\ ~StartedFetch(i)
           /\ \A f \in FetchIds : fetches[f].owner # i
           /\ \A j \in CallIds :
                (/\ calls[j].hook = "buildNotification"
                 /\ calls[j].args.snapshot = calls[i].args.snapshot)
                => calls[j].result = calls[i].result

\* two buildNotification calls with the same snapshot, and between them a hook
\* whose fetch has resolved
C9_Witness ==
    \E i \in CallIds, k \in CallIds, j \in CallIds :
        /\ i < k /\ k < j
        /\ calls[i].hook = "buildNotification"
        /\ calls[j].hook = "buildNotification"
        /\ calls[i].args.snapshot = calls[j].args.snapshot
        /\ calls[i].args.snapshot.freeCollateral < 0
        /\ StartedFetch(k)
        /\ FetchOf(k).status = "resolved"

StepsInOrder == <<"load", "account", "convert">>

\* the error each step fails with
StepError(step) ==
    CASE step = "load" -> "LoadError"
      [] step = "account" -> "AccountError"
      [] OTHER -> "ConversionError"

\* C10: a getFreeCollateral invocation runs load (network 1), account query
\* (for the accountId it was given) and conversion in that order, each at most
\* once; a step that fails ends the invocation with that step's error, and no
\* later step runs.
C10_StepsOnceInOrder ==
    \A f \in FetchIds :
        LET F == fetches[f]
            n == Len(F.log)
        IN  /\ n \in 1 .. 3
            /\ F.log = SubSeq(StepsInOrder, 1, n)
            /\ F.network = 1
            /\ F.accountId = calls[F.owner].args.address
            /\ n >= 2 => F.queried = F.accountId
            /\ F.status = "load" => n = 1
            /\ F.status = "account" => n = 2
            /\ F.status = "resolved" => n = 3
            /\ F.status = "rejected" => F.err = StepError(F.log[n])

\* an invocation whose account query failed, after its load had succeeded: it
\* ended there, without converting
C10_Witness ==
    \E f \in FetchIds :
        /\ fetches[f].status = "rejected"
        /\ fetches[f].err = "AccountError"
        /\ fetches[f].log = <<"load", "account">>
        /\ \E g \in FetchIds : fetches[g].status = "resolved"

====
